---- MODULE Spec2Model ----
(***************************************************************************)
(* Model of src/app.py: the start-up load of the department dataset        *)
(* (load_data, the key-normalised left join and its fallbacks), the metric *)
(* calculator (compute_metric) and the Dash callback update_dashboard.     *)
(*                                                                         *)
(* A data frame is a record [cols, rows]: cols is the set of column names, *)
(* rows the sequence of rows in index order (after reset_index the index   *)
(* of row k of the sequence is k-1), each row a function from cols to a    *)
(* cell.  A cell is a record [t, i, s]: t is the kind of value ("nan",     *)
(* "int", "float", "str", "geom"), i its number, s its text.               *)
(***************************************************************************)
EXTENDS Integers, Sequences, FiniteSets, TLC

VARIABLES
    pc,        \* "start" before the module body has run, "ready" once the app serves
    gdf,       \* the module-level dataset (lines 49, 65)
    geojson,   \* the module-level GeoJSON export of gdf (line 68)
    loaded,    \* history: the dataset as it was when start-up finished
    log,       \* what has been printed (line 26)
    out        \* outcome of the latest update_dashboard request

vars == <<pc, gdf, geojson, loaded, log, out>>

----------------------------------------------------------------------------
(* Bounds of the model.                                                    *)

MaxCo == 4      \* rows of the boundary shapefile
MaxVih == 3     \* rows of the case shapefile
MaxDraw == 1    \* outcomes 0..MaxDraw of the seeded Poisson generator

----------------------------------------------------------------------------
(* Cells.                                                                  *)

NaN == [t |-> "nan", i |-> 0, s |-> ""]
IntCell(n) == [t |-> "int", i |-> n, s |-> ""]
FloatCell(n) == [t |-> "float", i |-> n, s |-> ""]
StrCell(x) == [t |-> "str", i |-> 0, s |-> x]
GeomCell(g) == [t |-> "geom", i |-> g, s |-> ""]

IsNull(c) == c.t = "nan"

\* A numeric cell's number; only applied to "int" and "float" cells.
NumOf(c) == c.i

EmptyFrame == [cols |-> {}, rows |-> <<>>]

\* len(df)
NRows(df) == Len(df.rows)

\* df[c] = values : column assignment, values given per row position.
SetColumn(df, c, values) ==
    [cols |-> df.cols \cup {c},
     rows |-> [k \in 1..Len(df.rows) |->
                 [d \in df.cols \cup {c} |->
                     IF d = c THEN values[k] ELSE df.rows[k][d]]]]

----------------------------------------------------------------------------
(* Join key normalisation: .astype(str).str.zfill(2)  (lines 21, 22).      *)

KeyWidth == 2

\* Series.astype(str) on one value: Python's str() of it.
AsStr(c) ==
    CASE c.t = "int" -> ToString(c.i)
      [] c.t = "float" -> ToString(c.i) \o ".0"
      [] c.t = "str" -> c.s
      [] c.t = "nan" -> "nan"
      [] OTHER -> "POLYGON"

\* Zfill that pads whatever the length of the string.
ZfillAlways(x, width) == "0" \o x

\* Series.str.zfill(width) on one string: pad with "0" on the left.
RECURSIVE Zfill(_, _)
Zfill(x, width) == IF Len(x) >= width THEN x ELSE Zfill("0" \o x, width)

NormalizeKey(c) == StrCell(Zfill(AsStr(c), KeyWidth))

\* df[c] = df[c].astype(str).str.zfill(2); raises KeyError when c is no column.
NormalizeColumn(df, c) ==
    SetColumn(df, c, [k \in 1..Len(df.rows) |-> NormalizeKey(df.rows[k][c])])

----------------------------------------------------------------------------
(* The inputs: what the two shapefiles on disk may hold.                   *)

YearCols == {"Ano2009", "Ano2010", "Ano2011", "Ano2012"}

Depts == {5, 8}
DeptName(d) == IF d = 5 THEN "Antioquia" ELSE "Atlantico"
DeptCode(d) == IF d = 5 THEN "05" ELSE "08"

\* Layouts of the boundary table: the code stored as a number, as padded
\* text, or under another column name.
CoSchemas == {"int", "str", "nocode"}

CoCols(schema) ==
    IF schema = "nocode" THEN {"name", "geometry"}
    ELSE {"DPTO_CCDGO", "name", "geometry"}

CoRow(schema, d) ==
    [c \in CoCols(schema) |->
        CASE c = "DPTO_CCDGO" ->
                 IF schema = "int" THEN IntCell(d) ELSE StrCell(DeptCode(d))
          [] c = "name" -> StrCell(DeptName(d))
          [] OTHER -> GeomCell(d)]

\* Layouts of the case table.
\*   "shp"     a shapefile with its own geometry, the code a float column
\*   "table"   attributes only, the code as unpadded text
\*   "own"     no DANE column; carries DPTO_CCDGO, name and geometry itself
\*   "partial" attributes only, the years 2011, 2012 and the total missing
VihSchemas == {"shp", "table", "own", "partial"}

VihCols(schema) ==
    CASE schema = "shp" -> {"DANE", "DEPARTAMEN", "Casos", "geometry"} \cup YearCols
      [] schema = "table" -> {"DANE", "DEPARTAMEN", "Casos"} \cup YearCols
      [] schema = "own" -> {"DPTO_CCDGO", "name", "Casos", "geometry"} \cup YearCols
      [] OTHER -> {"DANE", "DEPARTAMEN", "Ano2009", "Ano2010"}

\* Kinds of case record, both of department 05 (a department may be reported
\* in more than one record; department 08 has none).  Kind "A" has 10 and 20
\* cases in 2009 and 2010 and no figure for the other years; kind "C" has a
\* stored total that covers more years than 2009-2012.
VihKinds == {"A", "C"}
KindDept(k) == CHOOSE d \in Depts : DeptName(d) = "Antioquia"

KindCell(k, c) ==
    CASE k = "A" /\ c = "Ano2009" -> IntCell(10)
      [] k = "A" /\ c = "Ano2010" -> IntCell(20)
      [] k = "A" /\ c = "Casos" -> IntCell(30)
      [] k = "C" /\ c = "Ano2009" -> IntCell(20)
      [] k = "C" /\ c = "Ano2010" -> IntCell(20)
      [] k = "C" /\ c = "Ano2012" -> IntCell(5)
      [] k = "C" /\ c = "Casos" -> IntCell(50)
      [] OTHER -> NaN

VihRow(schema, k) ==
    [c \in VihCols(schema) |->
        CASE c = "DANE" ->
                 IF schema = "shp" THEN FloatCell(KindDept(k))
                 ELSE IF schema = "table" THEN StrCell(ToString(KindDept(k)))
                 ELSE IntCell(KindDept(k))
          [] c = "DPTO_CCDGO" -> StrCell(DeptCode(KindDept(k)))
          [] c \in {"name", "DEPARTAMEN"} -> StrCell(DeptName(KindDept(k)))
          [] c = "geometry" -> GeomCell(KindDept(k))
          [] OTHER -> KindCell(k, c)]

SeqsUpTo(S, n) == UNION {[1..m -> S] : m \in 0..n}

CoFrames ==
    {[cols |-> CoCols(sch), rows |-> [k \in 1..Len(ds) |-> CoRow(sch, ds[k])]] :
        sch \in CoSchemas, ds \in SeqsUpTo(Depts, MaxCo)}

VihFrames ==
    {[cols |-> VihCols(sch), rows |-> [k \in 1..Len(ks) |-> VihRow(sch, ks[k])]] :
        sch \in VihSchemas, ks \in SeqsUpTo(VihKinds, MaxVih)}

----------------------------------------------------------------------------
(* DataFrame.merge(right, left_on, right_on, how="left")  (line 23).       *)

\* Columns the two sides share get the suffixes _x and _y, except a key
\* column that has the same name on both sides.
Overlap(left, right, lo, ro) ==
    (left.cols \cap right.cols) \ (IF lo = ro THEN {lo} ELSE {})

LeftName(left, right, lo, ro, c) ==
    IF c \in Overlap(left, right, lo, ro) THEN c \o "_x" ELSE c

RightName(left, right, lo, ro, c) ==
    IF c \in Overlap(left, right, lo, ro) THEN c \o "_y" ELSE c

MergeCols(left, right, lo, ro) ==
    {LeftName(left, right, lo, ro, c) : c \in left.cols}
        \cup {RightName(left, right, lo, ro, c) : c \in right.cols}

\* One output row: the left row with a matching right row, or with nulls.
Combine(left, right, lo, ro, l, r, matched) ==
    [m \in MergeCols(left, right, lo, ro) |->
        IF \E c \in left.cols : LeftName(left, right, lo, ro, c) = m
        THEN l[CHOOSE c \in left.cols : LeftName(left, right, lo, ro, c) = m]
        ELSE IF matched
             THEN r[CHOOSE c \in right.cols : RightName(left, right, lo, ro, c) = m]
             ELSE NaN]

\* The rows a left row contributes: one per matching right row in the right
\* table's order, or a single row of nulls when nothing matches.
RowsFor(left, right, lo, ro, l) ==
    LET hits == SelectSeq(right.rows, LAMBDA r : r[ro] = l[lo])
    IN  IF hits = <<>>
        THEN <<Combine(left, right, lo, ro, l, l, FALSE)>>
        ELSE [j \in 1..Len(hits) |-> Combine(left, right, lo, ro, l, hits[j], TRUE)]

RECURSIVE MergeRows(_, _, _, _, _)
MergeRows(left, right, lo, ro, k) ==
    IF k > Len(left.rows) THEN <<>>
    ELSE RowsFor(left, right, lo, ro, left.rows[k])
             \o MergeRows(left, right, lo, ro, k + 1)

Merge(left, right, lo, ro) ==
    [cols |-> MergeCols(left, right, lo, ro),
     rows |-> MergeRows(left, right, lo, ro, 1)]

----------------------------------------------------------------------------
(* load_data  (lines 14-47).                                               *)

\* Lines 21-23 when none of them raises.
MergedFrame(co, vih) ==
    Merge(NormalizeColumn(co, "DPTO_CCDGO"), NormalizeColumn(vih, "DANE"),
          "DPTO_CCDGO", "DANE")

\* The try block raises: a key column is missing (KeyError, lines 21, 22), or
\* the merged table has no column "geometry" to become the geometry of the
\* GeoDataFrame (line 24).
MergeRaises(co, vih) ==
    IF "DPTO_CCDGO" \notin co.cols \/ "DANE" \notin vih.cols
    THEN TRUE
    ELSE "geometry" \notin MergedFrame(co, vih).cols

\* gdf_vih as the except branch finds it: line 22 has rewritten its DANE
\* column in place when lines 21 and 22 both ran.
VihAtExcept(co, vih) ==
    IF "DPTO_CCDGO" \in co.cols /\ "DANE" \in vih.cols
    THEN NormalizeColumn(vih, "DANE")
    ELSE vih

SyntheticN == 10
PoissonBase == 100
FirstYear == 2009

\* One outcome of np.random.poisson(lam = 100 * (year - 2008)) for row i: the
\* generator is seeded, its values are not in the source, so the outcome w is
\* chosen among a few.
PoissonDraw(w, i, year) ==
    PoissonBase * (year - (FirstYear - 1)) + (((w + 1) * (i + year)) % 7) - 3

\* The else branch of load_data: ten copies of the country's row.
SyntheticFrame(w) ==
    LET cols == {"DPTO_CCDGO", "name", "geometry", "continent", "iso_a3", "Casos"}
                    \cup YearCols
        ano(i, y) == PoissonDraw(w, i, y)
    IN  [cols |-> cols,
         rows |-> [i \in 1..SyntheticN |->
            [c \in cols |->
                CASE c = "DPTO_CCDGO" -> StrCell(Zfill(ToString(i), KeyWidth))
                  [] c = "name" -> StrCell("Depto_" \o ToString(i))
                  [] c = "geometry" -> GeomCell(0)
                  [] c = "continent" -> StrCell("South America")
                  [] c = "iso_a3" -> StrCell("COL")
                  [] c = "Ano2009" -> IntCell(ano(i, 2009))
                  [] c = "Ano2010" -> IntCell(ano(i, 2010))
                  [] c = "Ano2011" -> IntCell(ano(i, 2011))
                  [] c = "Ano2012" -> IntCell(ano(i, 2012))
                  [] OTHER -> IntCell(ano(i, 2009) + ano(i, 2010)
                                        + ano(i, 2011) + ano(i, 2012))]]]

\* gdf.to_json() parsed: one feature per row, its id the row's index.
ToGeoJson(df) ==
    [k \in 1..Len(df.rows) |->
        [id |-> k - 1,
         geometry |-> IF "geometry" \in df.cols THEN df.rows[k]["geometry"] ELSE NaN]]

----------------------------------------------------------------------------
(* compute_metric  (lines 52-63).                                          *)

years == {"2009", "2010", "2011", "2012", "2009-2012"}
views == {"choropleth", "bubbles"}

\* MetricColumn with the prefix of the column name forgotten.
MetricColumnNoPrefix(year) == IF year = "2009-2012" THEN "Casos" ELSE year

\* The column the selector reads.
MetricColumn(year) == IF year = "2009-2012" THEN "Casos" ELSE "Ano" \o year

ColumnValues(df, c) == [k \in 1..Len(df.rows) |-> df.rows[k][c]]

\* raises: df["Casos"] is a KeyError when the column is missing; a missing
\* yearly column gives a series of NaN instead.
ComputeMetric(df, year) ==
    IF year = "2009-2012"
    THEN IF "Casos" \in df.cols
         THEN [raises |-> FALSE, val |-> ColumnValues(df, "Casos")]
         ELSE [raises |-> TRUE, val |-> <<>>]
    ELSE IF MetricColumn(year) \in df.cols
         THEN [raises |-> FALSE, val |-> ColumnValues(df, MetricColumn(year))]
         ELSE [raises |-> FALSE, val |-> [k \in 1..Len(df.rows) |-> NaN]]

----------------------------------------------------------------------------
(* update_dashboard  (lines 104-137).                                      *)

TopN == 10

\* Series.fillna(z)
FillNa(series, z) ==
    [k \in 1..Len(series) |-> IF IsNull(series[k]) THEN z ELSE NumOf(series[k])]

RECURSIVE SumSeq(_)
SumSeq(xs) == IF xs = <<>> THEN 0 ELSE Head(xs) + SumSeq(Tail(xs))

\* Series.mean() as the fraction num/den; the mean of no values is NaN (0/0).
MeanOf(xs) == [num |-> SumSeq(xs), den |-> Len(xs)]
MeanIsNaN(m) == m.den = 0

\* Series.idxmax(): the index label of the first largest value.
IdxMax(xs) ==
    (CHOOSE k \in 1..Len(xs) :
        /\ \A j \in 1..Len(xs) : xs[j] <= xs[k]
        /\ \A j \in 1..(k - 1) : xs[j] < xs[k]) - 1

\* max_depto: the name in the row idxmax points at, "" for an empty dataset.
MaxDepto(df, metric) ==
    IF Len(df.rows) > 0 THEN df.rows[IdxMax(metric) + 1]["name"] ELSE StrCell("")

\* InsertDesc for a sort in ascending order.
RECURSIVE InsertAsc(_, _)
InsertAsc(sorted, r) ==
    IF sorted = <<>> THEN <<r>>
    ELSE IF Head(sorted).Casos <= r.Casos
         THEN <<Head(sorted)>> \o InsertAsc(Tail(sorted), r)
         ELSE <<r>> \o sorted

\* sort_values("Casos", ascending=False): rows with equal values keep their
\* order (the sort of a table this small is an insertion sort).
RECURSIVE InsertDesc(_, _)
InsertDesc(sorted, r) ==
    IF sorted = <<>> THEN <<r>>
    ELSE IF Head(sorted).Casos >= r.Casos
         THEN <<Head(sorted)>> \o InsertDesc(Tail(sorted), r)
         ELSE <<r>> \o sorted

RECURSIVE SortDesc(_)
SortDesc(rows) ==
    IF rows = <<>> THEN <<>>
    ELSE InsertDesc(SortDesc(SubSeq(rows, 1, Len(rows) - 1)), rows[Len(rows)])

\* DataFrame.head(n)
HeadRows(rows, n) == SubSeq(rows, 1, IF Len(rows) < n THEN Len(rows) ELSE n)

\* Line 119-120: the three columns, metric renamed Casos, sorted, cut.
TableData(df) ==
    HeadRows(SortDesc([k \in 1..Len(df.rows) |->
                          [DPTO_CCDGO |-> df.rows[k]["DPTO_CCDGO"],
                           name |-> df.rows[k]["name"],
                           Casos |-> df.rows[k]["metric"].i]]), TopN)

\* CopyTarget when the frame is bound without being copied.
CopyAlias(src, dst) == src

\* DataFrame.copy(): the object the copy is bound to is a new one (dst), not
\* the object copied (src).
CopyTarget(src, dst) == dst

Title(year, view) == "Casos VIH - " \o year \o " - Vista: " \o view

NoFig == [kind |-> "", locations |-> <<>>, lon |-> <<>>, lat |-> <<>>,
          values |-> <<>>, hover |-> <<>>, geojson |-> <<>>, title |-> ""]

\* Lines 123-126.
Choropleth(df, gj, year, view) ==
    [kind |-> "choropleth",
     locations |-> [k \in 1..Len(df.rows) |-> k - 1],
     lon |-> <<>>, lat |-> <<>>,
     values |-> [k \in 1..Len(df.rows) |-> df.rows[k]["metric"].i],
     hover |-> ColumnValues(df, "name"),
     geojson |-> gj,
     title |-> Title(year, view)]

\* Lines 129-134, df_cent being df with the centroid columns added.
ScatterGeo(df_cent, year, view) ==
    [kind |-> "scatter_geo",
     locations |-> <<>>,
     lon |-> ColumnValues(df_cent, "lon"), lat |-> ColumnValues(df_cent, "lat"),
     values |-> [k \in 1..Len(df_cent.rows) |-> df_cent.rows[k]["metric"].i],
     hover |-> ColumnValues(df_cent, "name"),
     geojson |-> <<>>,
     title |-> Title(year, view)]

\* geometry.centroid.x / .y of one cell.
CentroidX(c) == IF IsNull(c) THEN NaN ELSE FloatCell(c.i)
CentroidY(c) == IF IsNull(c) THEN NaN ELSE FloatCell(0 - c.i)

NoRequest ==
    [status |-> "none", exc |-> "", year |-> "", view |-> "", metric |-> <<>>,
     total |-> 0, mean |-> [num |-> 0, den |-> 0], max_depto |-> StrCell(""),
     table |-> <<>>, fig |-> NoFig]

Raised(exc, year, view) ==
    [NoRequest EXCEPT !.status = "error", !.exc = exc, !.year = year, !.view = view]

\* Returned with the table built inside the choropleth branch only.
ReturnedTableInBranch(df, metric, fig, year, view) ==
    [status |-> "ok", exc |-> "", year |-> year, view |-> view,
     metric |-> metric,
     total |-> SumSeq(metric),
     mean |-> MeanOf(metric),
     max_depto |-> MaxDepto(df, metric),
     table |-> IF view = "choropleth" THEN TableData(df) ELSE <<>>,
     fig |-> fig]

\* What the callback returns when nothing raises: the KPIs of lines 109-111,
\* the table of lines 119-120 and the figure (line 137).
Returned(df, metric, fig, year, view) ==
    [status |-> "ok", exc |-> "", year |-> year, view |-> view,
     metric |-> metric,
     total |-> SumSeq(metric),
     mean |-> MeanOf(metric),
     max_depto |-> MaxDepto(df, metric),
     table |-> TableData(df),
     fig |-> fig]

\* The callback.  The frames it works on live in a small heap of named
\* objects, so that an assignment through df changes whatever object df is
\* bound to.  The result is the outcome of the request (what it returns, or
\* the exception that ends it) and the module-level dataset afterwards.
UpdateDashboard(g, gj, year, view) ==
    LET dfRef == CopyTarget("gdf", "df")
        heap1 == [r \in {"gdf", "df", "df_cent"} |-> IF r = "df_cent" THEN EmptyFrame ELSE g]
        m == ComputeMetric(heap1[dfRef], year)
        metric == FillNa(m.val, 0)
        heap2 == IF m.raises THEN heap1
                 ELSE [heap1 EXCEPT ![dfRef] =
                          SetColumn(@, "metric", [k \in 1..Len(metric) |-> IntCell(metric[k])])]
        df == heap2[dfRef]
        kpiRaises == Len(df.rows) > 0 /\ "name" \notin df.cols
        tableRaises == ~ ({"DPTO_CCDGO", "name", "metric"} \subseteq df.cols)
        mapRaises == view = "bubbles" /\ "geometry" \notin df.cols
        centRef == CopyTarget(dfRef, "df_cent")
        heap3 == IF m.raises \/ kpiRaises \/ tableRaises \/ mapRaises \/ view # "bubbles"
                 THEN heap2
                 ELSE LET h == [heap2 EXCEPT ![centRef] = heap2[dfRef]]
                          geo == ColumnValues(h[centRef], "geometry")
                          withLon == SetColumn(h[centRef], "lon",
                                         [k \in 1..Len(geo) |-> CentroidX(geo[k])])
                      IN  [h EXCEPT ![centRef] =
                              SetColumn(withLon, "lat",
                                  [k \in 1..Len(geo) |-> CentroidY(geo[k])])]
        result ==
            IF m.raises \/ kpiRaises \/ tableRaises THEN Raised("KeyError", year, view)
            ELSE IF mapRaises THEN Raised("AttributeError", year, view)
            ELSE Returned(df, metric,
                          IF view = "choropleth"
                          THEN Choropleth(heap3[dfRef], gj, year, view)
                          ELSE ScatterGeo(heap3[centRef], year, view),
                          year, view)
    IN  [out |-> result, gdf |-> heap3["gdf"]]

----------------------------------------------------------------------------
(* The state machine.                                                      *)

Init ==
    /\ pc = "start"
    /\ gdf = EmptyFrame
    /\ geojson = <<>>
    /\ loaded = EmptyFrame
    /\ log = <<>>
    /\ out = NoRequest

\* Lines 49, 65, 68 with the dataset load_data returned.
Startup(df) ==
    /\ gdf' = df
    /\ geojson' = ToGeoJson(df)
    /\ loaded' = df
    /\ pc' = "ready"
    /\ UNCHANGED out

\* Both files exist and lines 21-24 succeed.
LoadMerged ==
    /\ pc = "start"
    /\ \E co \in CoFrames, vih \in VihFrames :
          /\ ~MergeRaises(co, vih)
          /\ Startup(MergedFrame(co, vih))
    /\ UNCHANGED log

\* Both files exist and the try block raises: lines 25-27.
LoadFallback ==
    /\ pc = "start"
    /\ \E co \in CoFrames, vih \in VihFrames :
          /\ MergeRaises(co, vih)
          /\ Startup(VihAtExcept(co, vih))
    /\ log' = Append(log, "Advertencia merge real:")

\* A file is missing: lines 30-47.
LoadSynthetic ==
    /\ pc = "start"
    /\ \E w \in 0..MaxDraw : Startup(SyntheticFrame(w))
    /\ UNCHANGED log

\* One firing of the callback.
Request ==
    /\ pc = "ready"
    /\ \E year \in years, view \in views :
          LET r == UpdateDashboard(gdf, geojson, year, view)
          IN  /\ out' = r.out
              /\ gdf' = r.gdf
    /\ UNCHANGED <<pc, geojson, loaded, log>>

Next == LoadMerged \/ LoadFallback \/ LoadSynthetic \/ Request

Spec == Init /\ [][Next]_vars

----------------------------------------------------------------------------
(* Properties.  They speak of the latest request (out) and of the dataset  *)
(* it ran on (gdf).                                                        *)

SingleYears == years \ {"2009-2012"}

CellOrZero(c) == IF IsNull(c) THEN 0 ELSE c.i

YearOrZero(df, k, c) == IF c \in df.cols THEN CellOrZero(df.rows[k][c]) ELSE 0

RowYearSum(df, k) ==
    YearOrZero(df, k, "Ano2009") + YearOrZero(df, k, "Ano2010")
        + YearOrZero(df, k, "Ano2011") + YearOrZero(df, k, "Ano2012")

OtherView(view) == IF view = "choropleth" THEN "bubbles" ELSE "choropleth"

Count(S) == Cardinality(S)

\* C1: for the selector "2009-2012" the metric of every department is the
\* sum of its four yearly columns, a null counted as zero.
C1_AggregateIsRowSum ==
    (out.status = "ok" /\ out.year = "2009-2012") =>
        \A k \in 1..NRows(gdf) : out.metric[k] = RowYearSum(gdf, k)

\* C2: for a single-year selector whose column exists, the metric has one
\* value per department, in row order, equal to the department's value in
\* that column with a null replaced by zero.
C2_SingleYearIsColumn ==
    (out.status = "ok" /\ out.year \in SingleYears
        /\ ("Ano" \o out.year) \in gdf.cols) =>
        /\ Len(out.metric) = NRows(gdf)
        /\ \A k \in 1..NRows(gdf) :
              out.metric[k] = CellOrZero(gdf.rows[k]["Ano" \o out.year])

C2_Witness ==
    /\ out.status = "ok"
    /\ out.year = "2010"
    /\ "Ano2010" \in gdf.cols
    /\ \E j, k \in 1..NRows(gdf) :
          /\ IsNull(gdf.rows[j]["Ano2010"])
          /\ ~IsNull(gdf.rows[k]["Ano2010"])
          /\ out.metric[k] > 0

\* C3: the table has min(n, 10) rows, its Casos values never increase from
\* one row to the next, every row of it is a department of the dataset with
\* its metric, and every department left out has a metric no larger than the
\* smallest Casos of the table.
C3_TopTable ==
    out.status = "ok" =>
        LET n == NRows(gdf)
            t == out.table
            inTable(v) == {j \in 1..Len(t) : t[j].Casos = v}
            inData(v) == {k \in 1..n : out.metric[k] = v}
        IN  /\ Len(t) = IF n < 10 THEN n ELSE 10
            /\ \A j \in 1..(Len(t) - 1) : t[j].Casos >= t[j + 1].Casos
            /\ \A j \in 1..Len(t) : \E k \in 1..n :
                  /\ t[j].Casos = out.metric[k]
                  /\ t[j].DPTO_CCDGO = gdf.rows[k]["DPTO_CCDGO"]
                  /\ t[j].name = gdf.rows[k]["name"]
            /\ \A j \in 1..Len(t) :
                  Count(inTable(t[j].Casos)) <= Count(inData(t[j].Casos))
            /\ Len(t) > 0 =>
                  Count({k \in 1..n : out.metric[k] > t[Len(t)].Casos})
                      = Count({j \in 1..Len(t) : t[j].Casos > t[Len(t)].Casos})

C3_Witness ==
    /\ out.status = "ok"
    /\ NRows(gdf) > 10
    /\ Len(out.table) = 10
    /\ out.table[1].Casos > out.table[10].Casos
    /\ out.metric[1] < out.metric[2]

\* C4: the request for the same year in the other view mode completes too and
\* has the same metric, the same total, mean and department with most cases,
\* and the same table; its figure is of the other kind.
C4_ViewIndependent ==
    out.status = "ok" =>
        LET o == UpdateDashboard(gdf, geojson, out.year, OtherView(out.view)).out
        IN  /\ o.status = "ok"
            /\ o.metric = out.metric
            /\ o.total = out.total
            /\ o.mean = out.mean
            /\ o.max_depto = out.max_depto
            /\ o.table = out.table
            /\ o.fig.kind # out.fig.kind

C4_Witness ==
    /\ out.status = "ok"
    /\ out.view = "bubbles"
    /\ out.total > 0
    /\ Len(out.table) > 1
    /\ UpdateDashboard(gdf, geojson, out.year, "choropleth").out.status = "ok"

\* C5: once the app serves, the module-level dataset is the dataset start-up
\* left, whatever requests have run, and the outcome of the latest request is
\* the outcome of its year and view on that dataset.
C5_DatasetUntouched ==
    pc = "ready" =>
        /\ gdf = loaded
        /\ out.status # "none" =>
              out = UpdateDashboard(loaded, ToGeoJson(loaded), out.year, out.view).out

C5_Witness ==
    /\ pc = "ready"
    /\ out.status = "ok"
    /\ out.view = "bubbles"
    /\ NRows(gdf) > 1
    /\ {"metric", "lon", "lat"} \cap gdf.cols = {}

\* C6: after a join that succeeded, every key of the dataset, on the boundary
\* side (DPTO_CCDGO) and on the case side (DANE), is left as it is by the
\* normalisation, is at least two characters wide, and the two keys of a
\* matched row are equal.
C6_KeysNormalised ==
    (pc = "ready" /\ log = <<>>) =>
        \A k \in 1..NRows(gdf) :
            /\ \A c \in {"DPTO_CCDGO", "DANE"} \cap gdf.cols :
                  ~IsNull(gdf.rows[k][c]) =>
                      /\ NormalizeKey(gdf.rows[k][c]) = gdf.rows[k][c]
                      /\ Len(gdf.rows[k][c].s) >= 2
            /\ ("DANE" \in gdf.cols /\ ~IsNull(gdf.rows[k]["DANE"])) =>
                  gdf.rows[k]["DANE"] = gdf.rows[k]["DPTO_CCDGO"]

C6_Witness ==
    /\ pc = "ready"
    /\ log = <<>>
    /\ "DANE" \in gdf.cols
    /\ \E k \in 1..NRows(gdf) : gdf.rows[k]["DANE"] = StrCell("05")
    /\ \E k \in 1..NRows(gdf) : IsNull(gdf.rows[k]["DANE"])

\* C7: after a join failure (a warning has been logged) no request ends in an
\* uncaught error.
C7_FallbackNeverFatal ==
    log # <<>> => out.status # "error"

\* C8: when every department's value for the selected year is null, the total
\* is zero and the department with most cases is the empty string.
C8_AllNullYear ==
    (out.status = "ok" /\ out.year \in SingleYears
        /\ ("Ano" \o out.year) \in gdf.cols
        /\ \A k \in 1..NRows(gdf) : IsNull(gdf.rows[k]["Ano" \o out.year])) =>
        /\ out.total = 0
        /\ out.max_depto = StrCell("")

\* C9: when the column a selector reads is missing from a dataset that has the
\* department code, name and geometry, the request completes with metric 0
\* for every department and total 0.
C9_MissingColumnNoError ==
    \A y \in years :
        (out.status # "none" /\ out.year = y
            /\ (IF y = "2009-2012" THEN "Casos" ELSE "Ano" \o y) \notin gdf.cols
            /\ {"DPTO_CCDGO", "name", "geometry"} \subseteq gdf.cols) =>
            /\ out.status = "ok"
            /\ \A k \in 1..Len(out.metric) : out.metric[k] = 0
            /\ Len(out.metric) = NRows(gdf)
            /\ out.total = 0

\* C10: on a dataset of zero departments a request that completes reports
\* total 0, a mean that is a number, the empty string as department with
\* most cases, and an empty table.
C10_EmptyDataset ==
    (out.status = "ok" /\ NRows(gdf) = 0) =>
        /\ out.total = 0
        /\ ~MeanIsNaN(out.mean)
        /\ out.max_depto = StrCell("")
        /\ out.table = <<>>

====
